---- MODULE Spec2Model ----
(***************************************************************************)
(* ToyVec<T> (bicycle-book/ch07/toy-vec/src/lib.rs): a growable array that *)
(* keeps its elements in a boxed slice, and Iter, the borrowing view over  *)
(* it.  T is instantiated with a small integer type whose Default is 0.    *)
(* Source indices are 0-based; TLA+ sequences are 1-based, so the slot at  *)
(* source index i is elements[i + 1].                                      *)
(***************************************************************************)
EXTENDS Integers, Sequences, FiniteSets, TLC

\* Bounds of the model.
MaxVal == 1       \* the values a caller pushes are 0..MaxVal
MaxInitCap == 4   \* with_capacity(n) is called with n in 0..MaxInitCap
MaxLen == 5       \* push is called only while len < MaxLen
MaxExtraNext == 3 \* next() is called at most it.len + MaxExtraNext times on a view
StackFrames == 4  \* frames the stack holds before a further call overflows it

\* <T as Default>::default() for the integer element type.
Default == 0

Values == 0..MaxVal

(***************************************************************************)
(* Values handed back to the caller.  Every one is a record of the same    *)
(* shape: kind says what came back; val is the T (or usize) it carries; of *)
(* says whether a T is owned by the caller or is a reference, and to what; *)
(* index is the slot a reference into the storage points at.               *)
(***************************************************************************)
Ret(kind, val, of, index) == [kind |-> kind, val |-> val, of |-> of, index |-> index]
None == Ret("None", 0, "-", 0)
Unit == Ret("Unit", 0, "-", 0)
Usize(n) == Ret("usize", n, "-", 0)
SomeOwned(v) == Ret("Some", v, "owned", 0)
\* Some(&elements[index])
SomeSlot(elems, index) == Ret("Some", elems[index + 1], "elements", index)
\* &elements[index], and the caller's own reference handed back as it came
RefSlot(elems, index) == Ret("&T", elems[index + 1], "elements", index)
RefDefault(default) == Ret("&T", default, "default", 0)
\* the panic of an out-of-bounds index expression elements[index]
IndexPanic(index) == Ret("panic", 0, "elements", index)
\* a call that never returns
NoReturn(why) == Ret(why, 0, "-", 0)

\* The outcome of one call: the container afterwards and what came back.
Outcome(self, ret) == [vec |-> self, ret |-> ret]

\* Whether the index expression elements[index] is in bounds.
InBounds(elems, index) == index >= 0 /\ index < Len(elems)

allocate_in_heap(size) == [i \in 1..size |-> Default]

with_capacity(capacity) == [elements |-> allocate_in_heap(capacity), len |-> 0]

new == with_capacity(0)

capacity(self) == Len(self.elements)

\* len() calls itself: each call pushes one more frame and nothing ever
\* returns, so the call ends when the stack is exhausted.
RECURSIVE len_frame(_, _)
len_frame(self, depth) ==
    IF depth >= StackFrames
    THEN NoReturn("stack overflow")
    ELSE len_frame(self, depth + 1)

len(self) == len_frame(self, 0)

\* The move loop stopping one element short.
RECURSIVE move_elements_stops_early(_, _, _)
move_elements_stops_early(new_elements, old_elements, i) ==
    IF i + 1 >= Len(old_elements)
    THEN new_elements
    ELSE move_elements_stops_early(
             [new_elements EXCEPT ![i + 1] = old_elements[i + 1]], old_elements, i + 1)

\* The loop of grow: for (i, elem) in old_elements: self.elements[i] = elem.
RECURSIVE move_elements(_, _, _)
move_elements(new_elements, old_elements, i) ==
    IF i >= Len(old_elements)
    THEN new_elements
    ELSE move_elements([new_elements EXCEPT ![i + 1] = old_elements[i + 1]],
                       old_elements, i + 1)

\* How often the body of that loop runs: once for each old element.
RECURSIVE count_moves(_, _)
count_moves(old_elements, i) ==
    IF i >= Len(old_elements)
    THEN 0
    ELSE 1 + count_moves(old_elements, i + 1)

\* The element moves one call of grow performs.
grow_moves(self) ==
    IF capacity(self) = 0
    THEN 0
    ELSE count_moves(self.elements, 0)

\* grow without the loop that moves the old elements over.
grow_drops_elements(self) ==
    IF capacity(self) = 0
    THEN [self EXCEPT !.elements = allocate_in_heap(1)]
    ELSE [self EXCEPT !.elements = allocate_in_heap(capacity(self) * 2)]

\* grow to 2 * capacity + 1, which needs no case for capacity 0.
grow_double_plus_one(self) ==
    LET new_elements == allocate_in_heap(capacity(self) * 2 + 1)
    IN  [self EXCEPT !.elements = move_elements(new_elements, self.elements, 0)]

\* grow without the case for capacity 0: 0 * 2 slots are allocated.
grow_no_zero_case(self) ==
    LET new_elements == allocate_in_heap(capacity(self) * 2)
    IN  [self EXCEPT !.elements = move_elements(new_elements, self.elements, 0)]

\* grow by one slot at a time.
grow_adds_one(self) ==
    LET new_elements == allocate_in_heap(capacity(self) + 1)
    IN  [self EXCEPT !.elements = move_elements(new_elements, self.elements, 0)]

grow(self) ==
    IF capacity(self) = 0
    THEN [self EXCEPT !.elements = allocate_in_heap(1)]
    ELSE LET new_elements == allocate_in_heap(capacity(self) * 2)
             old_elements == self.elements
         IN  [self EXCEPT !.elements = move_elements(new_elements, old_elements, 0)]

\* push that grows only once len has passed the capacity.
push_grow_when_over(self, element) ==
    LET grown == IF self.len > capacity(self) THEN grow(self) ELSE self
    IN  IF InBounds(grown.elements, grown.len)
        THEN Outcome([elements |-> [grown.elements EXCEPT ![grown.len + 1] = element],
                      len |-> grown.len + 1], Unit)
        ELSE Outcome(grown, IndexPanic(grown.len))

\* push that adds 1 to len before it stores the element.
push_increments_first(self, element) ==
    LET grown == IF self.len = capacity(self) THEN grow(self) ELSE self
        n == grown.len + 1
    IN  IF InBounds(grown.elements, n)
        THEN Outcome([elements |-> [grown.elements EXCEPT ![n + 1] = element],
                      len |-> n], Unit)
        ELSE Outcome([grown EXCEPT !.len = n], IndexPanic(n))

\* push that grows one push early, when the element would fill the last slot.
push_grows_early(self, element) ==
    LET grown == IF self.len + 1 >= capacity(self) THEN grow(self) ELSE self
    IN  IF InBounds(grown.elements, grown.len)
        THEN Outcome([elements |-> [grown.elements EXCEPT ![grown.len + 1] = element],
                      len |-> grown.len + 1], Unit)
        ELSE Outcome(grown, IndexPanic(grown.len))

push(self, element) ==
    LET grown == IF self.len = capacity(self) THEN grow(self) ELSE self
    IN  IF InBounds(grown.elements, grown.len)
        THEN Outcome([elements |-> [grown.elements EXCEPT ![grown.len + 1] = element],
                      len |-> grown.len + 1], Unit)
        ELSE Outcome(grown, IndexPanic(grown.len))

\* get that compares the index with the capacity.
get_capacity_bound(self, index) ==
    IF index < capacity(self)
    THEN IF InBounds(self.elements, index)
         THEN Outcome(self, SomeSlot(self.elements, index))
         ELSE Outcome(self, IndexPanic(index))
    ELSE Outcome(self, None)

get(self, index) ==
    IF index < self.len
    THEN IF InBounds(self.elements, index)
         THEN Outcome(self, SomeSlot(self.elements, index))
         ELSE Outcome(self, IndexPanic(index))
    ELSE Outcome(self, None)

\* get_or that indexes the storage itself wherever the index is in the storage.
get_or_by_capacity(self, index, default) ==
    IF InBounds(self.elements, index)
    THEN Outcome(self, RefSlot(self.elements, index))
    ELSE Outcome(self, RefDefault(default))

get_or(self, index, default) ==
    LET found == get(self, index)
    IN  CASE found.ret.kind = "Some" ->
               Outcome(found.vec, RefSlot(found.vec.elements, found.ret.index))
          [] found.ret.kind = "None" -> Outcome(found.vec, RefDefault(default))
          [] OTHER -> found

\* pop that takes the element out by copy and leaves the slot as it is.
pop_keeps_slot(self) ==
    IF self.len = 0
    THEN Outcome(self, None)
    ELSE LET n == self.len - 1
         IN  IF InBounds(self.elements, n)
             THEN Outcome([self EXCEPT !.len = n], SomeOwned(self.elements[n + 1]))
             ELSE Outcome([self EXCEPT !.len = n], IndexPanic(n))

\* pop that replaces the slot at len before it decrements len.
pop_before_decrement(self) ==
    IF self.len = 0
    THEN Outcome(self, None)
    ELSE LET n == self.len
         IN  IF InBounds(self.elements, n)
             THEN Outcome([elements |-> [self.elements EXCEPT ![n + 1] = Default],
                           len |-> n - 1],
                          SomeOwned(self.elements[n + 1]))
             ELSE Outcome(self, IndexPanic(n))

\* pop without the len == 0 test: 0 - 1 overflows usize and panics.
pop_no_empty_check(self) ==
    IF self.len = 0
    THEN Outcome(self, Ret("panic", 0, "len", 0))
    ELSE LET n == self.len - 1
         IN  IF InBounds(self.elements, n)
             THEN Outcome([elements |-> [self.elements EXCEPT ![n + 1] = Default],
                           len |-> n],
                          SomeOwned(self.elements[n + 1]))
             ELSE Outcome([self EXCEPT !.len = n], IndexPanic(n))

\* pop that gives the vacated slot back: the storage shrinks to len.
pop_shrinks(self) ==
    IF self.len = 0
    THEN Outcome(self, None)
    ELSE LET n == self.len - 1
         IN  IF InBounds(self.elements, n)
             THEN Outcome([elements |-> SubSeq(self.elements, 1, n), len |-> n],
                          SomeOwned(self.elements[n + 1]))
             ELSE Outcome([self EXCEPT !.len = n], IndexPanic(n))

pop(self) ==
    IF self.len = 0
    THEN Outcome(self, None)
    ELSE LET n == self.len - 1
         IN  IF InBounds(self.elements, n)
             THEN Outcome([elements |-> [self.elements EXCEPT ![n + 1] = Default],
                           len |-> n],
                          SomeOwned(self.elements[n + 1]))
             ELSE Outcome([self EXCEPT !.len = n], IndexPanic(n))

iter(self) == [elements |-> self.elements, len |-> self.len, pos |-> 0]

\* next that adds 1 to pos on every call, the exhausted ones too.
next_advances_on_none(it) ==
    IF it.pos > it.len
    THEN [it |-> [it EXCEPT !.pos = it.pos + 1], ret |-> None]
    ELSE IF InBounds(it.elements, it.pos)
         THEN [it |-> [it EXCEPT !.pos = it.pos + 1],
               ret |-> SomeSlot(it.elements, it.pos)]
         ELSE [it |-> it, ret |-> IndexPanic(it.pos)]

\* next that counts the view's len down as it walks.
next_counts_down(it) ==
    IF it.len = 0
    THEN [it |-> it, ret |-> None]
    ELSE IF InBounds(it.elements, it.pos)
         THEN [it |-> [it EXCEPT !.pos = it.pos + 1, !.len = it.len - 1],
               ret |-> SomeSlot(it.elements, it.pos)]
         ELSE [it |-> it, ret |-> IndexPanic(it.pos)]

\* Iter::next: the view afterwards and what came back.
next(it) ==
    IF it.pos > it.len
    THEN [it |-> it, ret |-> None]
    ELSE IF InBounds(it.elements, it.pos)
         THEN [it |-> [it EXCEPT !.pos = it.pos + 1],
               ret |-> SomeSlot(it.elements, it.pos)]
         ELSE [it |-> it, ret |-> IndexPanic(it.pos)]

(***************************************************************************)
(* The state: one ToyVec and the calls a single-threaded caller makes.     *)
(***************************************************************************)
VARIABLES
    vec,        \* the ToyVec: [elements, len]
    views,      \* the live Iter borrowing vec: <<>> or <<[elements, len, pos]>>
    yielded,    \* what next() has returned so far on the live view, in call order
    op,         \* the last call made
    arg,        \* its argument (the element pushed, the index asked for), else 0
    dflt,       \* the T behind the default reference handed to get_or, else 0
    ret,        \* what it returned
    pushed,     \* the values pushed and not yet popped, oldest first
    roundtrip,  \* the container as it was before a push, kept while the next
                \* call is the pop that undoes it
    hist        \* what the calls so far add up to: initcap, the capacity the
                \* container was built with; highwater, the largest len
                \* reached; moves, the element moves all grow calls made

vars == <<vec, views, yielded, op, arg, dflt, ret, pushed, roundtrip, hist>>

\* A panic unwinds the caller and a call that never returns ends or hangs the
\* process: in both cases no further call is made.
Running == ret.kind \in {"Unit", "None", "Some", "usize", "&T"}

\* &mut self is available only while no view borrows the container.
Unborrowed == views = <<>>

\* The caller this model follows walks a view without other calls on the
\* container in between, capacity() apart.
Quiet == views = <<>>

Idle == [phase |-> "idle", before |-> new, v |-> 0]

Init ==
    /\ \/ op = "new" /\ arg = 0 /\ vec = new
       \/ op = "with_capacity" /\ arg \in 0..MaxInitCap /\ vec = with_capacity(arg)
    /\ views = <<>>
    /\ yielded = <<>>
    /\ ret = Unit
    /\ pushed = <<>>
    /\ roundtrip = Idle
    /\ dflt = 0
    /\ hist = [initcap |-> capacity(vec), highwater |-> 0, moves |-> 0]

Push ==
    /\ Running /\ Unborrowed
    /\ vec.len < MaxLen
    /\ \E element \in Values :
          LET out == push(vec, element)
          IN  /\ vec' = out.vec
              /\ ret' = out.ret
              /\ arg' = element
              /\ pushed' = Append(pushed, element)
              /\ roundtrip' = [phase |-> "pushed", before |-> vec, v |-> element]
              /\ hist' = [hist EXCEPT
                    !.highwater = IF out.vec.len > @ THEN out.vec.len ELSE @,
                    !.moves = IF vec.len = capacity(vec) THEN @ + grow_moves(vec) ELSE @]
    /\ op' = "push"
    /\ dflt' = 0
    /\ UNCHANGED <<views, yielded>>

Pop ==
    /\ Running /\ Unborrowed
    /\ LET out == pop(vec)
       IN  /\ vec' = out.vec
           /\ ret' = out.ret
    /\ op' = "pop"
    /\ arg' = 0
    /\ pushed' = IF pushed = <<>> THEN pushed ELSE SubSeq(pushed, 1, Len(pushed) - 1)
    /\ roundtrip' = IF roundtrip.phase = "pushed"
                    THEN [roundtrip EXCEPT !.phase = "popped"]
                    ELSE Idle
    /\ dflt' = 0
    /\ UNCHANGED <<views, yielded, hist>>

Get ==
    /\ Running /\ Quiet
    /\ \E index \in 0..(capacity(vec) + 1) :
          LET out == get(vec, index)
          IN  /\ vec' = out.vec
              /\ ret' = out.ret
              /\ arg' = index
    /\ op' = "get"
    /\ dflt' = 0
    /\ roundtrip' = Idle
    /\ UNCHANGED <<views, yielded, pushed, hist>>

\* The indices on either side of each boundary of the container: its first
\* slot, len and capacity.
Boundaries(self) ==
    {i \in {0, self.len - 1, self.len, capacity(self) - 1, capacity(self),
            capacity(self) + 1} : i >= 0}

GetOr ==
    /\ Running /\ Quiet
    /\ \E index \in Boundaries(vec), default \in Values :
          LET out == get_or(vec, index, default)
          IN  /\ vec' = out.vec
              /\ ret' = out.ret
              /\ arg' = index
              /\ dflt' = default
    /\ op' = "get_or"
    /\ roundtrip' = Idle
    /\ UNCHANGED <<views, yielded, pushed, hist>>

Capacity ==
    /\ Running
    /\ ret' = Usize(capacity(vec))
    /\ op' = "capacity"
    /\ arg' = 0
    /\ roundtrip' = Idle
    /\ dflt' = 0
    /\ UNCHANGED <<vec, views, yielded, pushed, hist>>

\* len() never returns.  A build that keeps the call overflows the stack; a
\* build that turns the tail call into a jump spins forever.
LenCall ==
    /\ Running /\ Quiet
    /\ ret' \in {len(vec), NoReturn("diverged")}
    /\ op' = "len"
    /\ arg' = 0
    /\ roundtrip' = Idle
    /\ dflt' = 0
    /\ UNCHANGED <<vec, views, yielded, pushed, hist>>

IterCall ==
    /\ Running /\ Unborrowed
    /\ views' = <<iter(vec)>>
    /\ yielded' = <<>>
    /\ op' = "iter"
    /\ arg' = 0
    /\ ret' = Unit
    /\ roundtrip' = Idle
    /\ dflt' = 0
    /\ UNCHANGED <<vec, pushed, hist>>

IterNext ==
    /\ Running
    /\ views # <<>>
    /\ Len(yielded) < views[1].len + MaxExtraNext
    /\ LET out == next(views[1])
       IN  /\ views' = <<out.it>>
           /\ ret' = out.ret
           /\ yielded' = IF out.ret.kind = "panic" THEN yielded
                                                    ELSE Append(yielded, out.ret)
    /\ op' = "next"
    /\ arg' = 0
    /\ roundtrip' = Idle
    /\ dflt' = 0
    /\ UNCHANGED <<vec, pushed, hist>>

\* The view goes out of scope: the borrow of the container ends.
DropIter ==
    /\ Running
    /\ views # <<>>
    /\ views' = <<>>
    /\ yielded' = <<>>
    /\ op' = "drop"
    /\ arg' = 0
    /\ ret' = Unit
    /\ roundtrip' = Idle
    /\ dflt' = 0
    /\ UNCHANGED <<vec, pushed, hist>>

Next ==
    \/ Push
    \/ Pop
    \/ Get
    \/ GetOr
    \/ Capacity
    \/ LenCall
    \/ IterCall
    \/ IterNext
    \/ DropIter

Spec == Init /\ [][Next]_vars

(***************************************************************************)
(* Properties.                                                             *)
(***************************************************************************)

\* The occupied slots of a container, oldest first.
Occupied(self) == SubSeq(self.elements, 1, self.len)

\* C1: in every state reached from new()/with_capacity(n) by push and pop
\* calls, 0 <= len <= capacity, the slots [0, len) hold exactly the values
\* pushed and not popped, in push order, and every slot in [len, capacity)
\* holds T's default value.
C1_SlotInvariant ==
    /\ 0 <= vec.len
    /\ vec.len <= capacity(vec)
    /\ Occupied(vec) = pushed
    /\ \A i \in vec.len..(capacity(vec) - 1) : vec.elements[i + 1] = Default

\* A pop has just vacated the slot at index 3 of a storage that grow created
\* (capacity 6 arises only by doubling 3), and the value popped was no default.
C1_Witness ==
    /\ op = "pop"
    /\ ret.kind = "Some" /\ ret.val # Default
    /\ vec.len = 3
    /\ capacity(vec) = 6

\* C2: on a view of a container holding v0..vk, the successive next() calls
\* return Some(v0), ..., Some(vk), each a reference to the slot of that index,
\* and after those len items only None; no call panics.
C2_IterYieldsExactlyLen ==
    views # <<>> =>
        /\ op = "next" => ret.kind # "panic"
        /\ \A k \in 1..Len(yielded) :
              yielded[k] = IF k <= Len(pushed)
                           THEN Ret("Some", pushed[k], "elements", k - 1)
                           ELSE None

\* C3: next() never indexes the storage at the view's len or beyond, so no
\* call of next() panics, on a full container (len = capacity) or any other.
C3_NextStaysBelowLen ==
    op = "next" =>
        /\ ret.kind # "panic"
        /\ ret.kind = "Some" => ret.index < views[1].len

\* C4: len() returns the number of occupied elements, the len field, and
\* leaves the container as it was.
C4_LenReturnsLen ==
    op = "len" =>
        /\ ret = Usize(vec.len)
        /\ Occupied(vec) = pushed

\* C5: push(v) does not panic, increases len by exactly 1, puts v at index
\* new_len - 1, leaves the elements at [0, old_len) as they were, and changes
\* the capacity (grow ran) exactly when len = capacity beforehand.
C5_Push ==
    [][op' = "push" =>
          /\ ret' = Unit
          /\ vec'.len = vec.len + 1
          /\ vec'.elements[vec'.len] = arg'
          /\ \A i \in 1..vec.len : vec'.elements[i] = vec.elements[i]
          /\ (capacity(vec') # capacity(vec)) <=> (vec.len = capacity(vec))]_vars

\* A push into a full container has just grown it from 2 slots to 4.
C5_Witness ==
    /\ op = "push"
    /\ hist.initcap = 2
    /\ ret = Unit
    /\ vec.len = 3
    /\ capacity(vec) = 4
    /\ vec.elements[3] = arg

\* C6: the container refines the LIFO sequence of the values pushed and not
\* popped: after every call, len is that sequence's length and get(i) is a
\* reference to its i-th value for every i < len, and every pop returns that
\* sequence's last value, or None when it is empty.
C6_RefinesLifo ==
    [][/\ vec'.len = Len(pushed')
       /\ \A i \in 0..(vec'.len - 1) :
             get(vec', i).ret = Ret("Some", pushed'[i + 1], "elements", i)
       /\ op' = "pop" =>
             ret' = IF pushed = <<>> THEN None ELSE SomeOwned(pushed[Len(pushed)])]_vars

\* Three values were pushed into a container that grew to hold them, all were
\* popped again, and one more pop has returned None.
C6_Witness ==
    /\ op = "pop"
    /\ hist.initcap = 0
    /\ hist.highwater = 3
    /\ ret = None
    /\ vec.len = 0
    /\ capacity(vec) = 4

\* C7: pop() on a container with len > 0 decrements len by exactly 1, returns
\* the element that was at index old_len - 1, overwrites that slot with T's
\* default value, and leaves the elements at [0, new_len) as they were.
C7_PopNonEmpty ==
    [][(op' = "pop" /\ vec.len > 0) =>
          /\ vec'.len = vec.len - 1
          /\ ret' = SomeOwned(vec.elements[vec.len])
          /\ vec'.elements[vec.len] = Default
          /\ capacity(vec') = capacity(vec)
          /\ \A i \in 1..vec'.len : vec'.elements[i] = vec.elements[i]]_vars

\* A pop has just returned a value that is no default, from a container that
\* still holds elements.
C7_Witness ==
    /\ op = "pop"
    /\ ret.kind = "Some" /\ ret.val # Default
    /\ vec.len = 2
    /\ vec.elements[3] = Default

\* C8: pop() on a container with len = 0, whatever its capacity, returns None,
\* does not panic, and leaves len, capacity and every storage slot unchanged.
C8_PopEmpty ==
    [][(op' = "pop" /\ vec.len = 0) =>
          /\ ret' = None
          /\ vec' = vec]_vars

\* A pop on an empty container that has storage has just returned None.
C8_Witness ==
    /\ op = "pop"
    /\ ret = None
    /\ vec.len = 0
    /\ capacity(vec) = 2
    /\ roundtrip.phase = "idle"

\* C9: for every index i, get(i) returns a value if and only if i < len; for
\* len <= i < capacity and for i >= capacity it returns None, and it never
\* panics.  Stated of the call just made and of every index that could be
\* asked for next.
C9_GetRange ==
    /\ op = "get" =>
          /\ ret.kind \in {"Some", "None"}
          /\ ret.kind = "Some" <=> arg < vec.len
    /\ \A i \in 0..(capacity(vec) + 1) :
          get(vec, i).ret.kind = IF i < vec.len THEN "Some" ELSE "None"

\* get was just asked for a placeholder slot and returned None.
C9_Witness ==
    /\ op = "get"
    /\ ret = None
    /\ vec.len > 0
    /\ arg >= vec.len
    /\ arg < capacity(vec)

\* C10: push(v) immediately followed by pop() returns Some(v), restores len
\* to its value before the push, and restores the contents of [0, len).
C10_PushPopRoundTrip ==
    roundtrip.phase = "popped" =>
        /\ ret = SomeOwned(roundtrip.v)
        /\ vec.len = roundtrip.before.len
        /\ Occupied(vec) = Occupied(roundtrip.before)

\* The push of the round trip grew the container, and the pop returned the
\* value pushed, which was no default, to a container that still holds elements.
C10_Witness ==
    /\ roundtrip.phase = "popped"
    /\ op = "pop"
    /\ ret = SomeOwned(roundtrip.v)
    /\ roundtrip.v # Default
    /\ vec.len > 0
    /\ capacity(vec) > capacity(roundtrip.before)

RECURSIVE IsPowerOfTwo(_)
IsPowerOfTwo(n) == n = 1 \/ (n > 1 /\ n % 2 = 0 /\ IsPowerOfTwo(n \div 2))

\* The smallest of c, 2c, 4c, ... that is at least m (c > 0).
RECURSIVE SmallestDoubling(_, _)
SmallestDoubling(c, m) == IF c >= m THEN c ELSE SmallestDoubling(2 * c, m)

\* C11: starting from with_capacity(0), after every push len <= capacity and
\* the capacity is a power of two; the capacity is 0 only before the first
\* push.
C11_GrowthInvariant ==
    hist.initcap = 0 =>
        /\ vec.len <= capacity(vec)
        /\ capacity(vec) = 0 <=> hist.highwater = 0
        /\ capacity(vec) > 0 => IsPowerOfTwo(capacity(vec))

\* The fifth push into a container built with capacity 0 has grown it to 8.
C11_Witness ==
    /\ hist.initcap = 0
    /\ op = "push"
    /\ vec.len = 5
    /\ capacity(vec) = 8

\* C12: push leaves the capacity as it is when len < capacity beforehand; when
\* len = capacity it makes it 1 if it was 0 and 2 * capacity otherwise; and
\* every earlier element is still got at its index.
C12_PushCapacity ==
    [][op' = "push" =>
          /\ ret' = Unit
          /\ capacity(vec') = IF vec.len < capacity(vec) THEN capacity(vec)
                              ELSE IF capacity(vec) = 0 THEN 1
                              ELSE 2 * capacity(vec)
          /\ \A i \in 0..(vec.len - 1) : get(vec', i).ret = get(vec, i).ret]_vars

\* with_capacity(4), four pushes at capacity 4, and the fifth push has just
\* grown the container to 8, moving the four elements.
C12_Witness ==
    /\ hist.initcap = 4
    /\ op = "push"
    /\ vec.len = 5
    /\ Len(pushed) = 5
    /\ capacity(vec) = 8
    /\ hist.moves = 4

\* C13: once next() has returned None on a view, every later next() on that
\* view returns None too, leaves pos where it is and does not panic.
C13_ExhaustedStaysExhausted ==
    [][(op' = "next" /\ \E j \in 1..Len(yielded) : yielded[j] = None) =>
          /\ ret' = None
          /\ views' = views]_vars

\* next() has returned None twice in a row, after yielding something.
C13_Witness ==
    /\ op = "next"
    /\ ret = None
    /\ Len(yielded) >= 3
    /\ yielded[Len(yielded) - 1] = None
    /\ yielded[1].kind = "Some"

\* C14: get_or(index, d) returns a reference to the element at index when
\* index < len and the reference d itself when index >= len, and never
\* panics.  Stated of the call just made and of every index and default that
\* could be asked for next.
C14_GetOr ==
    /\ op = "get_or" =>
          ret = IF arg < vec.len THEN RefSlot(vec.elements, arg) ELSE RefDefault(dflt)
    /\ \A i \in 0..(capacity(vec) + 1), d \in Values :
          get_or(vec, i, d).ret = IF i < vec.len THEN RefSlot(vec.elements, i)
                                                 ELSE RefDefault(d)

\* get_or was just asked for an index beyond the capacity of a container of
\* length 3, with a default that is not T's, and handed that default back.
C14_Witness ==
    /\ op = "get_or"
    /\ vec.len = 3
    /\ arg > capacity(vec)
    /\ dflt # Default
    /\ ret = RefDefault(dflt)

\* C15: capacity(), get, get_or, iter() and next() leave the container's len
\* and every storage slot as they were; iter() snapshots len; next() leaves
\* the view's storage reference and its len snapshot as they were, so that the
\* snapshot is the len the container had at iter().
C15_ReadsFrame ==
    [][/\ op' \in {"capacity", "get", "get_or", "iter", "next"} => vec' = vec
       /\ op' = "iter" => views'[1].len = vec.len
       /\ op' = "next" => /\ views'[1].elements = views[1].elements
                          /\ views'[1].len = views[1].len
                          /\ views'[1].len = vec'.len
                          /\ views'[1].pos \in {views[1].pos, views[1].pos + 1}]_vars

\* next() has just yielded the second element of a container of three.
C15_Witness ==
    /\ op = "next"
    /\ ret.kind = "Some"
    /\ views[1].pos = 2
    /\ views[1].len = 3
    /\ vec.len = 3

\* C16: grow, where push runs it, leaves len unchanged, holds at every index
\* below the old capacity the value the old storage held there, and holds T's
\* default at every index in [old capacity, new capacity); the storage the
\* push leaves behind is that one with the pushed element written.
C16_GrowPreserves ==
    [][(op' = "push" /\ vec.len = capacity(vec)) =>
          LET grown == grow(vec)
          IN  /\ grown.len = vec.len
              /\ capacity(grown) > capacity(vec)
              /\ \A i \in 1..capacity(vec) : grown.elements[i] = vec.elements[i]
              /\ \A i \in (capacity(vec) + 1)..capacity(grown) :
                    grown.elements[i] = Default
              /\ vec'.elements = [grown.elements EXCEPT ![vec.len + 1] = arg']]_vars

\* The fourth push into a container built with capacity 3 has grown it to 6,
\* and the three elements moved are no defaults.
C16_Witness ==
    /\ op = "push"
    /\ hist.initcap = 3
    /\ hist.moves = 3
    /\ vec.len = 4
    /\ capacity(vec) = 6
    /\ \A i \in 1..3 : vec.elements[i] # Default

\* C17: after N >= 1 pushes and no pop into a container built with capacity
\* 0, all grow calls together have moved fewer than 2 * N elements.  In such
\* a run every value pushed is still there and len never was larger, so
\* N = Len(pushed) = highwater.
C17_AmortizedMoves ==
    (hist.initcap = 0 /\ Len(pushed) >= 1 /\ hist.highwater = Len(pushed)) =>
        hist.moves < 2 * Len(pushed)

\* Five pushes from capacity 0: the grow calls moved 0 + 1 + 2 + 4 elements.
C17_Witness ==
    /\ hist.initcap = 0
    /\ op = "push"
    /\ Len(pushed) = 5
    /\ hist.highwater = 5
    /\ hist.moves = 7

\* C18: no call decreases the capacity, and pop, on an empty container or
\* not, leaves it as it is.
C18_CapacityMonotone ==
    [][/\ capacity(vec') >= capacity(vec)
       /\ op' = "pop" => capacity(vec') = capacity(vec)]_vars

\* The last of five elements has just been popped from a container that grew
\* from 0 to 8 slots.
C18_Witness ==
    /\ op = "pop"
    /\ ret.kind = "Some"
    /\ hist.initcap = 0
    /\ vec.len = 0
    /\ capacity(vec) = 8

\* C19: with n the capacity the container was built with and M the largest
\* len reached so far: if n > 0 the capacity is the smallest n * 2^k >= M; if
\* n = 0 it is 0 when M = 0 and else the smallest power of two >= M.
C19_CapacityTight ==
    capacity(vec) =
        IF hist.initcap > 0 THEN SmallestDoubling(hist.initcap, hist.highwater)
        ELSE IF hist.highwater = 0 THEN 0
        ELSE SmallestDoubling(1, hist.highwater)

\* A container built with capacity 3 reached len 4, so it has 6 slots, and pops
\* have since brought len down to 1.
C19_Witness ==
    /\ op = "pop"
    /\ hist.initcap = 3
    /\ hist.highwater = 4
    /\ vec.len = 1
    /\ capacity(vec) = 6

====
